---- MODULE Spec2Model ----
(***************************************************************************)
(* Model of src/app.py: a Streamlit page script that is re-run from top to *)
(* bottom on every user interaction against one session state.  A script   *)
(* run resolves the API credential, reads the sidebar section and, in the  *)
(* Chatbot section, seeds / renders / extends the conversation held in     *)
(* st.session_state.messages.  Text is modelled as sequences of one-       *)
(* character strings so that strip() and the "Error: " prefix are computed *)
(* on characters.                                                          *)
(***************************************************************************)
EXTENDS Naturals, Sequences, FiniteSets, TLC

VARIABLES
    environ,               \* os.environ restricted to OPENAI_API_KEY (a dict)
    secrets,               \* st.secrets (a dict, possibly with a "general" table)
    api_key,               \* openai.api_key
    error_banner,          \* st.error(...) was shown by the last run
    loaded,                \* the script has run at least once in this session
    app_mode,              \* value of the sidebar radio
    has_messages,          \* "messages" in st.session_state
    messages,              \* st.session_state.messages
    displayed,             \* what display_chat_messages rendered in the last run
    user_input,            \* value returned by st.chat_input in the last run
    prompt,                \* first argument of the last generate_response call
    conversation_history,  \* second argument of the last generate_response call
    request,               \* messages= passed to ChatCompletion.create
    service,               \* what the completion service did on the last call
    response,              \* value returned by the last generate_response call
    raised,                \* an exception escaped the last generate_response call
    calls                  \* number of ChatCompletion.create invocations

vars == <<environ, secrets, api_key, error_banner, loaded, app_mode,
          has_messages, messages, displayed, user_input, prompt,
          conversation_history, request, service, response, raised, calls>>

----------------------------------------------------------------------------
(* Bounds *)

MaxSubmissions == 2

MaxHist == 2

----------------------------------------------------------------------------
(* Text literals of the program *)

SystemPrompt ==
    <<"Y","o","u"," ","a","r","e"," ","a"," ","f","r","i","e","n","d","l","y",
      " ","p","o","r","t","f","o","l","i","o"," ","a","s","s","i","s","t","a",
      "n","t"," ","w","h","o"," ","a","n","s","w","e","r","s"," ","q","u","e",
      "s","t","i","o","n","s"," ","a","b","o","u","t"," ","m","y"," ","w","o",
      "r","k",","," ","e","x","p","e","r","i","e","n","c","e",","," ","a","n",
      "d"," ","p","r","o","j","e","c","t","s",".">>

Greeting ==
    <<"H","i",","," ","I","'","m"," ","y","o","u","r"," ","p","o","r","t","f",
      "o","l","i","o"," ","a","s","s","i","s","t","a","n","t","!"," ","H","o",
      "w"," ","c","a","n"," ","I"," ","h","e","l","p"," ","y","o","u"," ","t",
      "o","d","a","y","?">>

ErrorPrefix ==
    <<"E","r","r","o","r",":"," ">>

IndexErrorMessage ==
    <<"l","i","s","t"," ","i","n","d","e","x"," ","o","u","t"," ","o","f"," ",
      "r","a","n","g","e">>

AttributeErrorMessage ==
    <<"'","N","o","n","e","T","y","p","e","'"," ","o","b","j","e","c","t"," ",
      "h","a","s"," ","n","o"," ","a","t","t","r","i","b","u","t","e"," ","'",
      "s","t","r","i","p","'">>

(* Python's None, distinct from every text *)
None == <<"None">>

----------------------------------------------------------------------------
(* Inputs of the model *)

Hello ==
    <<"H","e","l","l","o">>

Blank ==
    <<" ">>

HiThere ==
    <<"H","i"," ","t","h","e","r","e">>

PaddedHi ==
    <<" ","H","i"," ","\n">>

TimeoutMessage ==
    <<"t","i","m","e","o","u","t">>

UserInputs == {Hello, Blank}

Responses == {HiThere, PaddedHi}

KeyName == "OPENAI_API_KEY"

Environs == {<<>>, KeyName :> "sk-env", KeyName :> ""}

SecretStores ==
    {flat @@ general :
        flat \in {<<>>, KeyName :> "sk-flat"},
        general \in {<<>>, "general" :> <<>>,
                     "general" :> (KeyName :> "sk-nested")}}

NoOutcome == [kind |-> "none", cls |-> "", text |-> <<>>]

ServiceOutcomes ==
    [kind : {"ok"}, cls : {""}, text : Responses]
    \cup {[kind |-> "raise", cls |-> "APIError", text |-> TimeoutMessage],
          [kind |-> "no_choice", cls |-> "IndexError", text |-> <<>>],
          [kind |-> "no_content", cls |-> "AttributeError", text |-> <<>>]}

Sections ==
    {"Chatbot", "Portfolio Navigation", "FAQ & Experience",
     "Visuals & Multimedia"}

----------------------------------------------------------------------------
(* Helpers *)

Turn(role, content) == [role |-> role, content |-> content]

Truthy(text) == text # None /\ text # <<>>

Whitespace == {" ", "\n", "\t"}

RECURSIVE lstrip(_)
lstrip(text) ==
    IF text # <<>> /\ Head(text) \in Whitespace
    THEN lstrip(Tail(text))
    ELSE text

RECURSIVE rstrip(_)
rstrip(text) ==
    IF text # <<>> /\ text[Len(text)] \in Whitespace
    THEN rstrip(SubSeq(text, 1, Len(text) - 1))
    ELSE text

strip_left_only(text) == lstrip(text)

strip(text) == rstrip(lstrip(text))

----------------------------------------------------------------------------
(* API key loading *)

ResolveApiKeyFlatFirst(env, sec, current) ==
    IF KeyName \in DOMAIN sec THEN sec[KeyName]
    ELSE IF KeyName \in DOMAIN env THEN env[KeyName]
    ELSE IF "general" \in DOMAIN sec /\ KeyName \in DOMAIN sec["general"]
    THEN sec["general"][KeyName]
    ELSE current

ResolveApiKey(env, sec, current) ==
    IF KeyName \in DOMAIN env THEN env[KeyName]
    ELSE IF KeyName \in DOMAIN sec THEN sec[KeyName]
    ELSE IF "general" \in DOMAIN sec /\ KeyName \in DOMAIN sec["general"]
    THEN sec["general"][KeyName]
    ELSE current

NoKeyProvided(env, sec) ==
    /\ KeyName \notin DOMAIN env
    /\ KeyName \notin DOMAIN sec
    /\ ~("general" \in DOMAIN sec /\ KeyName \in DOMAIN sec["general"])

----------------------------------------------------------------------------
(* generate_response *)

SystemMessage == Turn("system", SystemPrompt)

BuildMessagesNoSystem(p, history) ==
    history \o <<Turn("user", p)>>

BuildMessages(p, history) ==
    <<SystemMessage>> \o history \o <<Turn("user", p)>>

(* str(e) of the exception the try block ends with *)
ExceptionMessage(outcome) ==
    CASE outcome.kind = "raise" -> outcome.text
      [] outcome.kind = "no_choice" -> IndexErrorMessage
      [] outcome.kind = "no_content" -> AttributeErrorMessage

ExceptionClasses == {"APIError", "IndexError", "AttributeError"}

CaughtOnlyApiErrors(cls) == cls = "APIError"

(* `except Exception` catches every subclass of Exception *)
CaughtByExcept(cls) == cls \in ExceptionClasses

AttemptsWithRetry(outcome) == IF outcome.kind = "ok" THEN 1 ELSE 2

(* the try block invokes ChatCompletion.create once, whatever it does *)
Attempts(outcome) == 1

generate_response(p, history, outcome) ==
    LET msgs == BuildMessages(p, history)
    IN  IF outcome.kind = "ok"
        THEN [messages |-> msgs, attempts |-> Attempts(outcome),
              raised |-> FALSE, value |-> strip(outcome.text)]
        ELSE IF CaughtByExcept(outcome.cls)
        THEN [messages |-> msgs, attempts |-> Attempts(outcome),
              raised |-> FALSE,
              value |-> ErrorPrefix \o ExceptionMessage(outcome)]
        ELSE [messages |-> msgs, attempts |-> Attempts(outcome),
              raised |-> TRUE, value |-> None]

----------------------------------------------------------------------------
(* display_chat_messages *)

RenderTurn(msg) ==
    IF msg.role = "user"
    THEN [css |-> "user-message", label |-> "You:", content |-> msg.content]
    ELSE [css |-> "assistant-message", label |-> "Assistant:",
          content |-> msg.content]

RECURSIVE display_chat_messages(_)
display_chat_messages(msgs) ==
    IF msgs = <<>> THEN <<>>
    ELSE IF Head(msgs).role \in {"user", "assistant"}
    THEN <<RenderTurn(Head(msgs))>> \o display_chat_messages(Tail(msgs))
    ELSE display_chat_messages(Tail(msgs))

----------------------------------------------------------------------------
(* Session state *)

SeedWithSystem == <<SystemMessage, Turn("assistant", Greeting)>>

SeedMessages == <<Turn("assistant", Greeting)>>

AlwaysReseed(present, msgs) == SeedMessages

(* `if "messages" not in st.session_state: ... = [greeting]` *)
InitMessages(present, msgs) == IF present THEN msgs ELSE SeedMessages

PrependTurn(msgs, turn) == <<turn>> \o msgs

(* list.append *)
AppendTurn(msgs, turn) == Append(msgs, turn)

----------------------------------------------------------------------------
(* One run of the page script *)

LoadApiKey ==
    /\ api_key' = ResolveApiKey(environ, secrets, api_key)
    /\ error_banner' = NoKeyProvided(environ, secrets)

ChatbotSection(input) ==
    LET seeded == InitMessages(has_messages, messages)
    IN  /\ has_messages' = TRUE
        /\ displayed' = display_chat_messages(seeded)
        /\ user_input' = input
        /\ IF Truthy(input)
           THEN \E outcome \in ServiceOutcomes :
                  LET withUser == AppendTurn(seeded, Turn("user", input))
                      r == generate_response(input, withUser, outcome)
                  IN  /\ prompt' = input
                      /\ conversation_history' = withUser
                      /\ request' = r.messages
                      /\ service' = outcome
                      /\ calls' = calls + r.attempts
                      /\ response' = r.value
                      /\ raised' = r.raised
                      /\ messages' =
                           IF r.raised THEN withUser
                           ELSE AppendTurn(withUser,
                                           Turn("assistant", r.value))
           ELSE /\ messages' = seeded
                /\ UNCHANGED <<prompt, conversation_history, request,
                               service, response, raised, calls>>

StaticSection ==
    /\ displayed' = <<>>
    /\ user_input' = None
    /\ UNCHANGED <<has_messages, messages, prompt, conversation_history,
                   request, service, response, raised, calls>>

ScriptRun(mode, input) ==
    /\ loaded' = TRUE
    /\ app_mode' = mode
    /\ LoadApiKey
    /\ IF mode = "Chatbot" THEN ChatbotSection(input) ELSE StaticSection
    /\ UNCHANGED <<environ, secrets>>

----------------------------------------------------------------------------
(* Events that trigger a run *)

(* the session opens: the radio holds its first option, no widget has a value *)
FirstRun ==
    /\ ~loaded
    /\ ScriptRun(app_mode, None)

(* the user picks another section in the sidebar radio *)
SelectSection(mode) ==
    /\ loaded
    /\ mode # app_mode
    /\ ScriptRun(mode, None)

(* the user submits the chat input rendered by the previous run *)
Submit(text) ==
    /\ loaded
    /\ app_mode = "Chatbot"
    /\ Len(messages) < 2 * MaxSubmissions + 1
    /\ ScriptRun(app_mode, text)

Init ==
    /\ environ \in Environs
    /\ secrets \in SecretStores
    /\ api_key = None
    /\ error_banner = FALSE
    /\ loaded = FALSE
    /\ app_mode = "Chatbot"
    /\ has_messages = FALSE
    /\ messages = <<>>
    /\ displayed = <<>>
    /\ user_input = None
    /\ prompt = None
    /\ conversation_history = <<>>
    /\ request = <<>>
    /\ service = NoOutcome
    /\ response = None
    /\ raised = FALSE
    /\ calls = 0

Next ==
    \/ FirstRun
    \/ \E mode \in Sections : SelectSection(mode)
    \/ \E text \in UserInputs \cup {<<>>} : Submit(text)

Spec == Init /\ [][Next]_vars

----------------------------------------------------------------------------
(* generate_response on arbitrary arguments *)

Roles == {"system", "user", "assistant"}

Histories ==
    UNION {[1..n -> [role : Roles, content : {Hello, HiThere}]] :
             n \in 0..MaxHist}

InitGen ==
    /\ environ = <<>>
    /\ secrets = <<>>
    /\ api_key = None
    /\ error_banner = FALSE
    /\ loaded = FALSE
    /\ app_mode = "Chatbot"
    /\ has_messages = FALSE
    /\ messages = <<>>
    /\ displayed = <<>>
    /\ user_input = None
    /\ prompt \in UserInputs \cup {<<>>}
    /\ conversation_history \in Histories
    /\ request = <<>>
    /\ service = NoOutcome
    /\ response = None
    /\ raised = FALSE
    /\ calls = 0

GenerateResponseCall ==
    /\ calls = 0
    /\ \E outcome \in ServiceOutcomes :
         LET r == generate_response(prompt, conversation_history, outcome)
         IN  /\ request' = r.messages
             /\ service' = outcome
             /\ calls' = calls + r.attempts
             /\ response' = r.value
             /\ raised' = r.raised
    /\ UNCHANGED <<environ, secrets, api_key, error_banner, loaded, app_mode,
                   has_messages, messages, displayed, user_input, prompt,
                   conversation_history>>

NextGen == GenerateResponseCall

SpecGen == InitGen /\ [][NextGen]_vars

----------------------------------------------------------------------------
(* Properties *)

IsPrefix(a, b) == Len(a) <= Len(b) /\ SubSeq(b, 1, Len(a)) = a

Contains(text, sub) ==
    \E i \in 1..(Len(text) + 1) :
        /\ i + Len(sub) - 1 <= Len(text)
        /\ SubSeq(text, i, i + Len(sub) - 1) = sub

AllWhitespace(text) == \A i \in 1..Len(text) : text[i] \in Whitespace

(* t is raw without its leading and trailing whitespace *)
IsTrimOf(t, raw) ==
    /\ t # <<>> => (t[1] \notin Whitespace /\ t[Len(t)] \notin Whitespace)
    /\ \E i \in 0..Len(raw) :
         /\ i + Len(t) <= Len(raw)
         /\ SubSeq(raw, i + 1, i + Len(t)) = t
         /\ AllWhitespace(SubSeq(raw, 1, i))
         /\ AllWhitespace(SubSeq(raw, i + Len(t) + 1, Len(raw)))

(* the step is a script run that processed a submitted non-empty message *)
ProcessedSubmission == app_mode' = "Chatbot" /\ Truthy(user_input') /\ vars' # vars

(* C1: for a history H of N turns and a user string S, the message list    *)
(* generate_response(S, H) hands to the completion service has length N+2, *)
(* starts with the fixed system instruction, continues with the turns of H *)
(* in order, and ends with {role: user, content: S}.                       *)
C1_RequestShape ==
    calls > 0 =>
        /\ Len(request) = Len(conversation_history) + 2
        /\ request[1] = [role |-> "system", content |-> SystemPrompt]
        /\ \A i \in 1..Len(conversation_history) :
               request[i + 1] = conversation_history[i]
        /\ request[Len(request)] = [role |-> "user", content |-> prompt]

C1_Witness ==
    /\ calls > 0
    /\ Len(conversation_history) = MaxHist
    /\ conversation_history[1].role = "system"
    /\ conversation_history[2].role = "assistant"
    /\ Len(request) = MaxHist + 2

(* C2: a run that processes a submitted non-empty message makes the        *)
(* Conversation exactly 2 turns longer and keeps the Conversation as it    *)
(* was as a prefix, whether the completion call succeeds or fails.         *)
C2_GrowsByTwo ==
    [][ProcessedSubmission =>
          /\ Len(messages') = Len(messages) + 2
          /\ IsPrefix(messages, messages')]_vars

C2_Witness ==
    /\ Len(messages) = 5
    /\ service.kind = "raise"
    /\ messages[3].content = HiThere

(* C3: when the completion call fails (the API raises, there is no first   *)
(* choice, or the content is unusable) generate_response does not raise;   *)
(* it returns "Error: " followed by the error message, and the run appends *)
(* the user Turn and then exactly one assistant Turn carrying that text.   *)
C3_FailureBecomesTurn ==
    [][(ProcessedSubmission /\ service'.kind # "ok") =>
          /\ ~raised'
          /\ Contains(response', <<"E", "r", "r", "o", "r", ":">>)
          /\ response' = <<"E", "r", "r", "o", "r", ":", " ">>
                           \o ExceptionMessage(service')
          /\ messages' = messages \o
                <<[role |-> "user", content |-> user_input'],
                  [role |-> "assistant", content |-> response']>>]_vars

C3_Witness ==
    /\ service.kind = "no_choice"
    /\ Len(messages) = 3
    /\ messages[3] = [role |-> "assistant",
                      content |-> ErrorPrefix \o IndexErrorMessage]

(* C4: the credential is the environment variable if present, else the     *)
(* flat secret if present, else the secret nested under "general" if       *)
(* present; when none is present no credential is set and the error banner *)
(* is shown.                                                               *)
C4_CredentialPriority ==
    loaded =>
        LET envSet == KeyName \in DOMAIN environ
            flatSet == KeyName \in DOMAIN secrets
            nestedSet == /\ "general" \in DOMAIN secrets
                         /\ KeyName \in DOMAIN secrets["general"]
        IN  /\ envSet => api_key = environ[KeyName]
            /\ (~envSet /\ flatSet) => api_key = secrets[KeyName]
            /\ (~envSet /\ ~flatSet /\ nestedSet) =>
                   api_key = secrets["general"][KeyName]
            /\ (~envSet /\ ~flatSet /\ ~nestedSet) => api_key = None
            /\ error_banner <=> (~envSet /\ ~flatSet /\ ~nestedSet)

C4_Witness ==
    /\ loaded
    /\ environ = (KeyName :> "")
    /\ KeyName \in DOMAIN secrets
    /\ "general" \in DOMAIN secrets
    /\ api_key = ""
    /\ ~error_banner

(* C5: the stored Conversation never holds a system Turn; its first        *)
(* element is the seeded assistant greeting and every later element is a   *)
(* submitted user Turn or an assistant Turn returned by generate_response. *)
C5_StoredTurns ==
    has_messages =>
        /\ \A i \in 1..Len(messages) : messages[i].role # "system"
        /\ messages[1] = [role |-> "assistant", content |-> Greeting]
        /\ \A i \in 2..Len(messages) :
             \/ /\ messages[i].role = "user"
                /\ messages[i].content \in UserInputs
             \/ /\ messages[i].role = "assistant"
                /\ messages[i - 1].role = "user"
                /\ \/ \E raw \in Responses :
                         IsTrimOf(messages[i].content, raw)
                   \/ IsPrefix(<<"E", "r", "r", "o", "r", ":", " ">>,
                               messages[i].content)

C5_Witness ==
    /\ Len(messages) = 5
    /\ request[1].role = "system"
    /\ messages[4].role = "user"
    /\ messages[5].role = "assistant"

(* C6: from the freshly seeded Conversation [assistant:greeting], a        *)
(* submission S answered with first-choice content R gives                 *)
(* [assistant:greeting, user:S, assistant:R without its leading and        *)
(* trailing whitespace].                                                   *)
C6_EndToEnd ==
    [][(/\ ProcessedSubmission
        /\ messages = <<[role |-> "assistant", content |-> Greeting]>>
        /\ service'.kind = "ok") =>
          /\ Len(messages') = 3
          /\ messages'[1] = [role |-> "assistant", content |-> Greeting]
          /\ messages'[2] = [role |-> "user", content |-> user_input']
          /\ messages'[3].role = "assistant"
          /\ IsTrimOf(messages'[3].content, service'.text)]_vars

C6_Witness ==
    /\ Len(messages) = 3
    /\ service = [kind |-> "ok", cls |-> "", text |-> PaddedHi]
    /\ messages[2].content = Hello
    /\ messages[3].content = <<"H", "i">>

(* C7: the Conversation is created only by a Chatbot run that finds it     *)
(* absent and then holds exactly the seeded greeting; once it exists no    *)
(* run removes, re-seeds or shortens it, and a run that processes no       *)
(* non-empty submission leaves it unchanged.                               *)
C7_LazySeedAndFrame ==
    [][/\ (~has_messages /\ has_messages') =>
             /\ app_mode' = "Chatbot"
             /\ messages' = <<[role |-> "assistant", content |-> Greeting]>>
       /\ has_messages =>
             /\ has_messages'
             /\ IsPrefix(messages, messages')
       /\ (has_messages /\ ~ProcessedSubmission) => messages' = messages
       /\ ~has_messages' => messages' = <<>>]_vars

C7_Witness ==
    /\ app_mode = "FAQ & Experience"
    /\ has_messages
    /\ Len(messages) = 3
    /\ displayed = <<>>

(* C8: the number of calls to the completion service equals the number of  *)
(* processed submissions: one call per submitted non-empty message,        *)
(* success or failure, and none in a run without a submission.             *)
C8_OneCallPerSubmission ==
    calls = Cardinality({i \in 1..Len(messages) : messages[i].role = "user"})

C8_Witness ==
    /\ calls = 2
    /\ service.kind = "no_content"
    /\ user_input = None

(* C9: the request sent for a submission S made while the Conversation     *)
(* holds N turns is the system instruction, those N turns, then the new    *)
(* user turn: length N+2, the new user turn only as the last element.      *)
C9_RequestForSubmission ==
    [][ProcessedSubmission =>
          /\ Len(request') = Len(messages) + 2
          /\ request' = <<[role |-> "system", content |-> SystemPrompt]>>
                          \o messages
                          \o <<[role |-> "user", content |-> user_input']>>]_vars

(* C10: at the end of the run that processes a submission, the turns       *)
(* rendered by display_chat_messages are the whole Conversation, the new   *)
(* user turn and the new assistant turn included.                          *)
C10_RenderedAfterAppend ==
    (app_mode = "Chatbot" /\ Truthy(user_input)) =>
        displayed = display_chat_messages(messages)

====
